---------------------------- MODULE Spec2Model ----------------------------
(***************************************************************************)
(* State-machine model of m1kx/heater-control:                             *)
(*   src/src/util/heatingsystem.ts  TcpClient, HeatingSystemController     *)
(*   src/src/util/cron.ts           CronHandler                            *)
(*   src/src/util/database.ts       Database (crons table)                 *)
(*                                                                         *)
(* Every await of the source is a step boundary; the code between two      *)
(* awaits runs to completion (JavaScript event loop), so it is one action. *)
(***************************************************************************)
EXTENDS Naturals, Sequences, FiniteSets

\* ------------------------------------------------------------------ bounds
MaxCalls == 3        \* send calls issued in one run (direct and from firings)
MaxReconnects == 1   \* deferred reconnects scheduled in one run
MaxFaults == 2       \* gateway faults (refused connect, dropped socket)
MaxCtl == 3          \* AbortControllers created in one run
MaxPayload == 25     \* bytes of a decoded "L:" payload
MaxTenths == 330     \* setTemperature's temperature, in tenths of a degree

\* Every Deno.connect gets a fresh socket: that many can be opened in a run.
MaxSock == 2 * MaxCalls + MaxReconnects

NoConn == 0          \* this.conn === null
NoCtl == 0           \* no AbortController / no registered Deno.cron

NameOrder == <<"j1", "j2">>    \* job names, in the row order of table crons
Names == {NameOrder[i] : i \in 1..Len(NameOrder)}
rfAdresses == <<"A", "B">>     \* StoreCron.rfAdresses of every job

VARIABLES
  conn,      \* TcpClient.conn: socket id, NoConn for null
  lock,      \* TcpClient.lock
  socks,     \* socket id -> [st, inbox]: the sockets opened by Deno.connect
  nsock,     \* number of sockets opened so far
  calls,     \* call id -> the state of one sendMessage... invocation
  ncalls,    \* number of send calls issued so far
  recs,      \* reconnect id -> the state of one scheduleReconnect timer
  nrecs,     \* number of reconnect timers scheduled so far
  faults,    \* gateway faults so far
  db,        \* database.ts `db`: TRUE once Database.create has run
  crons,     \* names of the rows of table crons
  cronController, \* cron.ts Map: name -> AbortController id, NoCtl if absent
  aborted,   \* AbortController ids whose abort() has been called
  timers,    \* Deno.cron registry: name -> controller id of its signal
  nctl,      \* AbortControllers created so far
  fired,     \* call ids spawned by the latest firing, in spawn order
  lastRemove, \* what the latest removeCron did: [name, effects, threw, ...]
  lastNew,   \* what the latest newCron did: [name, threw]
  decodedData, \* getDeviceList: the decoded bytes of the "L:" reply
  devices,   \* getDeviceList: the records pushed so far
  idx,       \* getDeviceList: the loop variable i
  listPc,    \* getDeviceList: "idle", "loop" or "returned"
  mode,      \* setTemperature: its mode argument
  temperature, \* setTemperature: its temperature argument, in tenths
  temperatureByte, \* setTemperature: the last element of its payload
  setPc      \* setTemperature: "idle", "call" or "built"

vars == <<conn, lock, socks, nsock, calls, ncalls, recs, nrecs, faults,
          db, crons, cronController, aborted, timers, nctl, fired, lastRemove,
          lastNew, decodedData, devices, idx, listPc,
          mode, temperature, temperatureByte, setPc>>

transportVars == <<conn, lock, socks, nsock, calls, ncalls, recs, nrecs, faults>>
schedVars == <<db, crons, cronController, aborted, timers, nctl, fired, lastRemove,
               lastNew>>
listVars == <<decodedData, devices, idx, listPc>>
setVars == <<mode, temperature, temperatureByte, setPc>>
codecVars == <<listVars, setVars>>

CallIds == 1..MaxCalls
RecIds == 1..MaxReconnects
SockIds == 1..MaxSock

\* ----------------------------------------------------------- wire protocol
\* message.split(":")[0].toUpperCase(): the prefix a reply must start with.
ReplyPrefix(pfx) ==
  CASE pfx = "l" -> "L"
    [] pfx = "s" -> "S"
    [] pfx = "t" -> "T"
    [] OTHER -> "?"

\* A line on a socket: its prefix and the call whose command caused it
\* (0 for the lines the gateway sends on its own after accepting).
Line(pfx, of) == [pfx |-> pfx, of |-> of]

\* What the gateway sends when a connection is accepted, in the orders it
\* may send it: connect() compares prefixes only, so the order is an input.
Greetings == {<<Line("H", 0), Line("L", 0)>>, <<Line("L", 0), Line("H", 0)>>}

\* The gateway answers l: and s: with one line; t: has no reply.
Answers(pfx) == pfx \in {"l", "s"}

\* --------------------------------------------------------------- records
NoLine == Line("", 0)

\* One invocation chain of sendMessageWithResponse ("W") or
\* sendMessageNoResponse ("N"):
\*   pc     where the call is suspended: "wait" (acquireLock's poll loop),
\*          "try" (gate acquired), "connect" (await Deno.connect), "hs"
\*          (connect's read loop), "write" (await conn.write), "read" (the
\*          reply loop), or finished: "returned"/"done" (resolved), "failed"
\*          (rejected); "unused" before the call is issued
\*   ctx    "try" or "catch": the block of the innermost invocation
\*   depth  number of recursive sendMessageWithResponse invocations
\*   sk     the socket the pending connect-read / write / read was issued on
\*   info   connect()'s local `info`
\*   writes number of conn.write calls of this call that completed
\*   wsock  the socket of the latest completed write
\*   res    the line the call returned
\*   job    the job whose firing issued the call, "" for a direct call
NewCall(kind, pfx, addr, job) ==
  [kind |-> kind, pfx |-> pfx, addr |-> addr, job |-> job, pc |-> "unused",
   ctx |-> "try", depth |-> 0, sk |-> NoConn, info |-> "", writes |-> 0,
   wsock |-> NoConn, res |-> NoLine]

NoCall == NewCall("", "", "", "")

\* One setTimeout callback of scheduleReconnect: pc is "timer" (pending),
\* "connect", "hs" or "done" (connect() returned).
NoRec == [pc |-> "unused", sk |-> NoConn, info |-> ""]

NoSock == [st |-> "unused", inbox |-> <<>>]

\* ------------------------------------------------------------------ gate
\* acquireLock without its wait loop.
CanAcquireAlways(lk) == TRUE

\* acquireLock's loop condition negated: the gate can be taken.
CanAcquire(lk) == ~lk

\* acquireLock as it runs synchronously at the start of a send: the gate is
\* taken at once when it is free, otherwise the call polls ("wait").
Enter(c, lk) ==
  IF CanAcquire(lk) THEN [c EXCEPT !.pc = "try"] ELSE [c EXCEPT !.pc = "wait"]

\* Between acquiring the gate and finishing the command.
InFlight(c) == c.pc \in {"try", "connect", "hs", "write", "read"}

Finished(c) == c.pc \in {"returned", "done", "failed"}

\* scheduleReconnect: one more pending timer.
ScheduleReconnect(rs, n) == [rs EXCEPT ![n + 1] = [NoRec EXCEPT !.pc = "timer"]]

\* A socket some pending operation or this.conn still refers to.
Referenced(s) ==
  \/ conn = s
  \/ \E p \in CallIds : calls[p].pc \in {"hs", "write", "read"} /\ calls[p].sk = s
  \/ \E r \in RecIds : recs[r].pc = "hs" /\ recs[r].sk = s

\* ------------------------------------------------------------------ Init
TransportInit ==
  /\ conn = NoConn
  /\ lock = FALSE
  /\ socks = [s \in SockIds |-> NoSock]
  /\ nsock = 0
  /\ calls = [p \in CallIds |-> NoCall]
  /\ ncalls = 0
  /\ recs = [r \in RecIds |-> NoRec]
  /\ nrecs = 0
  /\ faults = 0

\* A promise nobody awaits has rejected: the runtime reports the unhandled
\* rejection and terminates the process. Everything the process held in
\* memory is gone (the sockets are closed with it); a process started
\* afterwards begins at module load. The rows of table crons are on disk
\* and stay. The counters of the run (nsock, ncalls, nrecs, nctl, faults)
\* count across restarts.
MemoryLost ==
  /\ conn' = NoConn
  /\ lock' = FALSE
  /\ socks' = [s \in SockIds |-> NoSock]
  /\ calls' = [p \in CallIds |-> NoCall]
  /\ recs' = [r \in RecIds |-> NoRec]
  /\ db' = FALSE
  /\ cronController' = [n \in Names |-> NoCtl]
  /\ aborted' = {}
  /\ timers' = [n \in Names |-> NoCtl]
  /\ fired' = <<>>

\* The promise of call c is dropped by its caller: setTemperature is called
\* without await by the Deno.cron callback. The promise of a direct call
\* goes to the caller.
Dropped(c) == c.job # ""

\* ------------------------------------------------------- send: the gate
\* A caller invokes controller.getDeviceList() ("l:", with response) or
\* controller.deleteDevices() ("t:", no response).
DirectCall(kind, pfx) ==
  /\ ncalls < MaxCalls
  /\ calls' = [calls EXCEPT ![ncalls + 1] = Enter(NewCall(kind, pfx, "", ""), lock)]
  /\ lock' = TRUE
  /\ ncalls' = ncalls + 1
  /\ UNCHANGED <<conn, socks, nsock, recs, nrecs, faults>>
  /\ UNCHANGED schedVars
  /\ UNCHANGED codecVars

\* acquireLock: a poll finds the gate free and takes it.
AcquireLock(p) ==
  /\ calls[p].pc = "wait"
  /\ CanAcquire(lock)
  /\ lock' = TRUE
  /\ calls' = [calls EXCEPT ![p].pc = "try"]
  /\ UNCHANGED <<conn, socks, nsock, ncalls, recs, nrecs, faults>>
  /\ UNCHANGED schedVars
  /\ UNCHANGED codecVars

\* `if (!this.conn) await this.connect()`, else the write is issued.
Try(p) ==
  /\ calls[p].pc = "try"
  /\ calls' = [calls EXCEPT ![p] =
                 IF conn = NoConn THEN [@ EXCEPT !.pc = "connect"]
                 ELSE [@ EXCEPT !.pc = "write", !.sk = conn]]
  /\ UNCHANGED <<conn, lock, socks, nsock, ncalls, recs, nrecs, faults>>
  /\ UNCHANGED schedVars
  /\ UNCHANGED codecVars

\* ------------------------------------------------- connect(): the socket
\* An exception inside the try block of a send, or inside its catch block.
\*   with-response, try:   catch { await this.connect(); ... }
\*   with-response, catch: the rejection leaves the call; nothing releases
\*                         the gate
\*   no-response:          catch { handleClose(); throw }, finally releaseLock
Thrown(c) ==
  IF c.kind = "W" /\ c.ctx = "try"
    THEN [c EXCEPT !.ctx = "catch", !.pc = "connect", !.sk = NoConn]
    ELSE [c EXCEPT !.pc = "failed", !.sk = NoConn]

\* The gate after an exception left call c's try block.
LockAfterThrow(c, lk) == IF c.kind = "N" THEN FALSE ELSE lk

\* connect() has returned to call c.
\*   try block:   the write is issued on this.conn
\*   catch block: `await this.sendMessageWithResponse(message)`, a nested
\*                invocation that starts with acquireLock
Connected(c, cn, lk) ==
  IF c.ctx = "try"
    THEN [c EXCEPT !.pc = "write", !.sk = cn]
    ELSE Enter([c EXCEPT !.ctx = "try", !.depth = @ + 1, !.sk = NoConn], lk)

\* The gate after connect() returned to call c: the nested invocation of
\* the catch block has set it, or still finds it set.
LockAfterConnected(c, lk) == IF c.ctx = "try" THEN lk ELSE TRUE

\* Deno.connect resolves for a send: this.conn is the new socket, and the
\* first read of the handshake loop is issued on it.
ConnectOk(p) ==
  /\ calls[p].pc = "connect"
  /\ nsock < MaxSock
  /\ nsock' = nsock + 1
  /\ \E g \in Greetings :
       socks' = [socks EXCEPT ![nsock + 1] = [st |-> "open", inbox |-> g]]
  /\ conn' = nsock + 1
  /\ calls' = [calls EXCEPT ![p] = [@ EXCEPT !.pc = "hs", !.sk = nsock + 1, !.info = ""]]
  /\ UNCHANGED <<lock, ncalls, recs, nrecs, faults>>
  /\ UNCHANGED schedVars
  /\ UNCHANGED codecVars

\* Deno.connect rejects (gateway unreachable).
ConnectRefused(p) ==
  /\ calls[p].pc = "connect"
  /\ faults < MaxFaults
  /\ calls[p].kind = "N" => nrecs < MaxReconnects
  /\ faults' = faults + 1
  /\ IF Thrown(calls[p]).pc = "failed" /\ Dropped(calls[p])
       THEN /\ MemoryLost
            /\ UNCHANGED <<nsock, ncalls, nrecs, crons, nctl, lastRemove, lastNew>>
       ELSE /\ calls' = [calls EXCEPT ![p] = Thrown(@)]
            /\ lock' = LockAfterThrow(calls[p], lock)
            /\ IF calls[p].kind = "N"
                 THEN recs' = ScheduleReconnect(recs, nrecs) /\ nrecs' = nrecs + 1
                 ELSE UNCHANGED <<recs, nrecs>>
            /\ UNCHANGED <<conn, socks, nsock, ncalls>>
            /\ UNCHANGED schedVars
  /\ UNCHANGED codecVars

\* connect()'s loop body after receiveMessage returned `response`.
HsInfo(info, line) == IF line.pfx = "H" THEN "H" ELSE info

\* A handshake loop that also returns at the info line.
HsReturnsAtInfo(line) == line.pfx \in {"H", "L"}

HsReturns(line) == line.pfx = "L"

\* receiveMessage in connect()'s loop, for a send: a line arrives.
Handshake(p) ==
  LET c == calls[p]
      line == Head(socks[c.sk].inbox)
      c1 == [c EXCEPT !.info = HsInfo(c.info, line)]
  IN /\ c.pc = "hs"
     /\ socks[c.sk].inbox # <<>>
     /\ socks' = [socks EXCEPT ![c.sk].inbox = Tail(@)]
     /\ IF HsReturns(line)
          THEN /\ calls' = [calls EXCEPT ![p] = Connected(c1, conn, lock)]
               /\ lock' = LockAfterConnected(c1, lock)
          ELSE /\ calls' = [calls EXCEPT ![p] = [c1 EXCEPT !.sk = conn]]
               /\ lock' = lock
     /\ UNCHANGED <<conn, nsock, ncalls, recs, nrecs, faults>>
     /\ UNCHANGED schedVars
     /\ UNCHANGED codecVars

\* receiveMessage on a dead socket: conn.read rejects (handleClose schedules
\* a reconnect) or resolves to null; either way it returns "", which starts
\* with no prefix, and the caller's loop issues the next read on this.conn.
ReadFails(p, throws) ==
  LET c == calls[p]
  IN /\ c.pc \in {"hs", "read"}
     /\ socks[c.sk].st = "dead"
     /\ socks[c.sk].inbox = <<>>
     /\ calls' = [calls EXCEPT ![p].sk = conn]
     /\ IF throws
          THEN /\ nrecs < MaxReconnects
               /\ recs' = ScheduleReconnect(recs, nrecs)
               /\ nrecs' = nrecs + 1
          ELSE UNCHANGED <<recs, nrecs>>
     /\ UNCHANGED <<conn, lock, socks, nsock, ncalls, faults>>
     /\ UNCHANGED schedVars
     /\ UNCHANGED codecVars

\* ------------------------------------------------------ send: the command
\* The call after `await this.conn?.write(data)` resolved: a with-response
\* send enters its reply loop (first read issued on this.conn), a
\* no-response send leaves through finally.
Written(c, cn) ==
  IF c.kind = "W"
    THEN [c EXCEPT !.pc = "read", !.writes = @ + 1, !.wsock = c.sk, !.sk = cn]
    ELSE [c EXCEPT !.pc = "done", !.writes = @ + 1, !.wsock = c.sk, !.sk = NoConn]

\* releaseLock in sendMessageNoResponse's finally; sendMessageWithResponse
\* has no finally and never calls releaseLock.
LockAfterSend(c, lk) == IF c.kind = "N" THEN FALSE ELSE lk

\* conn.write resolves. On an open socket the gateway receives the command
\* and queues its answer; on a dead socket the bytes are lost (delivered is
\* FALSE: the write is buffered locally and still resolves).
Write(p, delivered) ==
  LET c == calls[p]
  IN /\ c.pc = "write"
     /\ delivered <=> socks[c.sk].st = "open"
     /\ socks' = IF delivered /\ Answers(c.pfx)
                   THEN [socks EXCEPT ![c.sk].inbox = Append(@, Line(ReplyPrefix(c.pfx), p))]
                   ELSE socks
     /\ calls' = [calls EXCEPT ![p] = Written(c, conn)]
     /\ lock' = LockAfterSend(c, lock)
     /\ UNCHANGED <<conn, nsock, ncalls, recs, nrecs, faults>>
     /\ UNCHANGED schedVars
     /\ UNCHANGED codecVars

\* conn.write rejects on a dead socket.
WriteFails(p) ==
  LET c == calls[p]
  IN /\ c.pc = "write"
     /\ socks[c.sk].st = "dead"
     /\ c.kind = "N" => nrecs < MaxReconnects
     /\ calls' = [calls EXCEPT ![p] = Thrown(c)]
     /\ lock' = LockAfterThrow(c, lock)
     /\ IF c.kind = "N"
          THEN recs' = ScheduleReconnect(recs, nrecs) /\ nrecs' = nrecs + 1
          ELSE UNCHANGED <<recs, nrecs>>
     /\ UNCHANGED <<conn, socks, nsock, ncalls, faults>>
     /\ UNCHANGED schedVars
     /\ UNCHANGED codecVars

\* response.startsWith(message.split(":")[0].toUpperCase())
Matches(c, line) == line.pfx = ReplyPrefix(c.pfx)

\* receiveMessage in the reply loop of sendMessageWithResponse: a line
\* arrives; a matching line is returned (the gate stays set), any other
\* line is dropped and the next read is issued on this.conn.
Read(p) ==
  LET c == calls[p]
      line == Head(socks[c.sk].inbox)
  IN /\ c.pc = "read"
     /\ socks[c.sk].inbox # <<>>
     /\ socks' = [socks EXCEPT ![c.sk].inbox = Tail(@)]
     /\ calls' = [calls EXCEPT ![p] =
                    IF Matches(c, line)
                      THEN [c EXCEPT !.pc = "returned", !.res = line, !.sk = NoConn]
                      ELSE [c EXCEPT !.sk = conn]]
     /\ UNCHANGED <<conn, lock, nsock, ncalls, recs, nrecs, faults>>
     /\ UNCHANGED schedVars
     /\ UNCHANGED codecVars

\* ----------------------------------------------------- scheduleReconnect
\* The timer of scheduleReconnect expires: this.connect() is called, with
\* no gate and whatever this.conn is.
ReconnectTimer(r) ==
  /\ recs[r].pc = "timer"
  /\ recs' = [recs EXCEPT ![r].pc = "connect"]
  /\ UNCHANGED <<conn, lock, socks, nsock, calls, ncalls, nrecs, faults>>
  /\ UNCHANGED schedVars
  /\ UNCHANGED codecVars

\* Deno.connect resolves for a scheduled reconnect: this.conn is replaced.
ReconnectOk(r) ==
  /\ recs[r].pc = "connect"
  /\ nsock < MaxSock
  /\ nsock' = nsock + 1
  /\ \E g \in Greetings :
       socks' = [socks EXCEPT ![nsock + 1] = [st |-> "open", inbox |-> g]]
  /\ conn' = nsock + 1
  /\ recs' = [recs EXCEPT ![r] = [pc |-> "hs", sk |-> nsock + 1, info |-> ""]]
  /\ UNCHANGED <<lock, calls, ncalls, nrecs, faults>>
  /\ UNCHANGED schedVars
  /\ UNCHANGED codecVars

\* Deno.connect rejects for a scheduled reconnect: the timer callback
\* `() => { this.connect(); }` drops the promise.
ReconnectRefused(r) ==
  /\ recs[r].pc = "connect"
  /\ faults < MaxFaults
  /\ faults' = faults + 1
  /\ MemoryLost
  /\ UNCHANGED <<nsock, ncalls, nrecs, crons, nctl, lastRemove, lastNew>>
  /\ UNCHANGED codecVars

\* connect()'s loop for a scheduled reconnect: a line arrives.
ReconnectHandshake(r) ==
  LET c == recs[r]
      line == Head(socks[c.sk].inbox)
  IN /\ c.pc = "hs"
     /\ socks[c.sk].inbox # <<>>
     /\ socks' = [socks EXCEPT ![c.sk].inbox = Tail(@)]
     /\ recs' = [recs EXCEPT ![r] =
                   IF HsReturns(line)
                     THEN [pc |-> "done", sk |-> NoConn, info |-> HsInfo(c.info, line)]
                     ELSE [pc |-> "hs", sk |-> conn, info |-> HsInfo(c.info, line)]]
     /\ UNCHANGED <<conn, lock, nsock, calls, ncalls, nrecs, faults>>
     /\ UNCHANGED schedVars
     /\ UNCHANGED codecVars

\* receiveMessage of a scheduled reconnect on a dead socket returns "".
ReconnectReadFails(r) ==
  /\ recs[r].pc = "hs"
  /\ socks[recs[r].sk].st = "dead"
  /\ socks[recs[r].sk].inbox = <<>>
  /\ recs' = [recs EXCEPT ![r].sk = conn]
  /\ UNCHANGED <<conn, lock, socks, nsock, calls, ncalls, nrecs, faults>>
  /\ UNCHANGED schedVars
  /\ UNCHANGED codecVars

\* -------------------------------------------------------------- gateway
\* The gateway (or the network) drops a connection: what it had queued is
\* lost, reads and writes on the socket fail from now on.
Drop(s) ==
  /\ faults < MaxFaults
  /\ socks[s].st = "open"
  /\ Referenced(s)
  /\ faults' = faults + 1
  /\ socks' = [socks EXCEPT ![s] = [st |-> "dead", inbox |-> <<>>]]
  /\ UNCHANGED <<conn, lock, nsock, calls, ncalls, recs, nrecs>>
  /\ UNCHANGED schedVars
  /\ UNCHANGED codecVars

\* ------------------------------------------------------------ database.ts
\* Database.create: `db = new DB(name)`, CREATE TABLE IF NOT EXISTS.
Create ==
  /\ ~db
  /\ db' = TRUE
  /\ UNCHANGED <<crons, cronController, aborted, timers, nctl, fired, lastRemove, lastNew>>
  /\ UNCHANGED transportVars
  /\ UNCHANGED codecVars

\* Database.addCron on a table whose name column is no key.
AddCronNoKey(name) == ~db

\* Database.addCron throws when db is unset and when the INSERT violates
\* `name TEXT PRIMARY KEY`.
AddCronThrows(name) == ~db \/ name \in crons

\* Database.removeCron with a DELETE that has lost its WHERE clause.
DbRemoveCronAll(st, name) ==
  IF ~db THEN [st EXCEPT !.threw = TRUE]
  ELSE [st EXCEPT !.crons = {}, !.effects = Append(@, "delete")]

\* Database.removeCron on the scheduler state st: throws when db is unset,
\* else DELETE FROM crons WHERE name = ?.
DbRemoveCron(st, name) ==
  IF ~db THEN [st EXCEPT !.threw = TRUE]
  ELSE [st EXCEPT !.crons = @ \ {name}, !.effects = Append(@, "delete")]

\* ---------------------------------------------------------------- cron.ts
\* initializeCron up to its await, on <<cronController, timers, nctl>>:
\* a new AbortController replaces the Map entry of the name, then Deno.cron
\* registers the name with that controller's signal, or throws when the
\* name is already registered. Both callers drop initializeCron's promise,
\* so that rejection is unhandled (exited: the process is terminated once
\* the caller's synchronous code has run).
InitializeCron(st, name) ==
  LET c == st.nctl + 1
  IN [st EXCEPT !.nctl = c,
                !.cronController = [@ EXCEPT ![name] = c],
                !.timers = IF @[name] = NoCtl THEN [@ EXCEPT ![name] = c] ELSE @,
                !.exited = @ \/ st.timers[name] # NoCtl]

\* cronController.get(name)?.abort() on the scheduler state st: the signal
\* of the controller in the Map fires, which closes the Deno.cron that was
\* registered with it.
AbortCron(st, name) ==
  LET c == cronController[name]
  IN IF c = NoCtl THEN st
     ELSE [st EXCEPT !.aborted = @ \cup {c},
                     !.timers = IF @[name] = c THEN [@ EXCEPT ![name] = NoCtl] ELSE @,
                     !.effects = Append(@, "abort")]

\* removeCron's statements in a wrong order: abort, then Database.removeCron.
RemoveStepsAbortFirst(st, name) == DbRemoveCron(AbortCron(st, name), name)

\* removeCron's statements in order: Database.removeCron, then the abort,
\* which is not reached when Database.removeCron throws.
RemoveSteps(st, name) ==
  LET s1 == DbRemoveCron(st, name)
  IN IF s1.threw THEN s1 ELSE AbortCron(s1, name)

\* CronHandler.newCron: Database.addCron, then initializeCron (not reached
\* when addCron throws).
newCron(name) ==
  /\ nctl < MaxCtl
  /\ lastNew' = [name |-> name, threw |-> AddCronThrows(name)]
  /\ IF AddCronThrows(name)
       THEN /\ UNCHANGED <<db, crons, cronController, aborted, timers, nctl, fired>>
            /\ UNCHANGED transportVars
       ELSE LET st == InitializeCron([nctl |-> nctl, cronController |-> cronController,
                                      timers |-> timers, exited |-> FALSE], name)
            IN /\ crons' = crons \cup {name}
               /\ nctl' = st.nctl
               /\ IF st.exited
                    THEN /\ MemoryLost
                         /\ UNCHANGED <<nsock, ncalls, nrecs, faults>>
                    ELSE /\ cronController' = st.cronController
                         /\ timers' = st.timers
                         /\ UNCHANGED <<db, aborted, fired>>
                         /\ UNCHANGED transportVars
  /\ UNCHANGED lastRemove
  /\ UNCHANGED codecVars

\* initializeCrons' loop over the rows of Database.getCrons, from row i on.
RECURSIVE InitializeFrom(_, _)
InitializeFrom(st, i) ==
  IF i > Len(NameOrder) THEN st
  ELSE InitializeFrom(IF NameOrder[i] \in crons THEN InitializeCron(st, NameOrder[i]) ELSE st,
                      i + 1)

\* CronHandler.initializeCrons: Database.getCrons throws when db is unset.
initializeCrons ==
  /\ nctl + Cardinality(crons) <= MaxCtl
  /\ IF ~db
       THEN /\ UNCHANGED <<db, cronController, aborted, timers, nctl, fired>>
            /\ UNCHANGED transportVars
       ELSE LET st == InitializeFrom([nctl |-> nctl, cronController |-> cronController,
                                      timers |-> timers, exited |-> FALSE], 1)
            IN /\ nctl' = st.nctl
               /\ IF st.exited
                    THEN /\ MemoryLost
                         /\ UNCHANGED <<nsock, ncalls, nrecs, faults>>
                    ELSE /\ cronController' = st.cronController
                         /\ timers' = st.timers
                         /\ UNCHANGED <<db, aborted, fired>>
                         /\ UNCHANGED transportVars
  /\ UNCHANGED <<crons, lastRemove, lastNew>>
  /\ UNCHANGED codecVars

\* CronHandler.removeCron.
removeCron(name) ==
  LET st == RemoveSteps([crons |-> crons, aborted |-> aborted, timers |-> timers,
                         effects |-> <<>>, threw |-> FALSE], name)
  IN /\ crons' = st.crons
     /\ aborted' = st.aborted
     /\ timers' = st.timers
     /\ lastRemove' = [name |-> name, effects |-> st.effects, threw |-> st.threw]
     /\ UNCHANGED <<db, cronController, nctl, fired, lastNew>>
     /\ UNCHANGED transportVars
     /\ UNCHANGED codecVars

\* The calls one firing issues from address i on. setTemperature is called
\* without await: each call runs up to its first suspension (acquireLock
\* takes the gate if it is free) and the loop goes on to the next address.
\* The catch block is never entered: an async function does not throw, it
\* returns a promise, and the promise is dropped.
RECURSIVE SpawnFrom(_, _, _, _, _)
SpawnFrom(cs, lk, n, i, name) ==
  IF i > Len(rfAdresses) THEN cs
  ELSE SpawnFrom([cs EXCEPT ![n + 1] = Enter(NewCall("W", "s", rfAdresses[i], name), lk)],
                 TRUE, n + 1, i + 1, name)

\* The Deno.cron callback of a registered job runs.
Fire(name) ==
  /\ timers[name] # NoCtl
  /\ ncalls + Len(rfAdresses) <= MaxCalls
  /\ calls' = SpawnFrom(calls, lock, ncalls, 1, name)
  /\ lock' = TRUE
  /\ ncalls' = ncalls + Len(rfAdresses)
  /\ fired' = [i \in 1..Len(rfAdresses) |-> ncalls + i]
  /\ UNCHANGED <<conn, socks, nsock, recs, nrecs, faults>>
  /\ UNCHANGED <<db, crons, cronController, aborted, timers, nctl, lastRemove, lastNew>>
  /\ UNCHANGED codecVars

\* ------------------------------------------------ controller: the codecs
\* The bitwise operators of the controller, on non-negative integers.
RECURSIVE BitOr(_, _)
BitOr(a, b) ==
  IF a = 0 THEN b
  ELSE IF b = 0 THEN a
  ELSE (IF a % 2 = 1 \/ b % 2 = 1 THEN 1 ELSE 0) + 2 * BitOr(a \div 2, b \div 2)

ShiftLeft(a, n) == a * 2 ^ n

\* Uint8Array.slice(from, to): zero-based, end exclusive, clipped.
Slice(bytes, from, to) ==
  LET hi == IF to < Len(bytes) THEN to ELSE Len(bytes)
  IN IF from >= hi THEN <<>> ELSE SubSeq(bytes, from + 1, hi)

RECURSIVE bytesToDecimal(_)
bytesToDecimal(bytes) ==
  IF bytes = <<>> THEN 0
  ELSE BitOr(ShiftLeft(bytesToDecimal(SubSeq(bytes, 1, Len(bytes) - 1)), 8),
             bytes[Len(bytes)])

\* Two hexadecimal digits per byte, as digit values.
RECURSIVE bytesToHex(_)
bytesToHex(bytes) ==
  IF bytes = <<>> THEN <<>>
  ELSE <<Head(bytes) \div 16, Head(bytes) % 16>> \o bytesToHex(Tail(bytes))

\* `(msrdTempBytes[0] * 256 + msrdTempBytes[1]) / 10`, in tenths of a
\* degree; an index past the end reads undefined and the sum is NaN.
MeasuredTenths(bytes) ==
  IF Len(bytes) < 2 THEN "NaN" ELSE bytes[1] * 256 + bytes[2]

\* `hasMoreData`, computed once from the first byte of the payload.
HasMoreData(data) == bytesToDecimal(Slice(data, 0, 1)) > 6

\* The record the loop body builds at offset i; temperatures in tenths.
DeviceAt(data, i) ==
  IF HasMoreData(data)
    THEN [rfAddress |-> bytesToHex(Slice(data, i + 1, i + 4)),
          targetTemperature |-> bytesToDecimal(Slice(data, i + 8, i + 9)) * 5,
          measuredTemperature |-> MeasuredTenths(Slice(data, i + 9, i + 11)),
          valvePosition |-> bytesToDecimal(Slice(data, i + 7, i + 8))]
    ELSE [rfAddress |-> bytesToHex(Slice(data, i + 1, i + 4))]

\* The decoded payloads getDeviceList is run on: every length up to
\* MaxPayload, with first bytes on both sides of the hasMoreData test.
Seeds == {3, 7, 200}
PayloadOf(n, seed) == [k \in 1..n |-> (seed + 37 * (k - 1)) % 256]
Payloads == {PayloadOf(n, seed) : n \in 0..MaxPayload, seed \in Seeds}

\* One iteration of `for (let i = 0; i < decodedData.length; i += 12)`.
getDeviceListLoop ==
  /\ listPc = "loop"
  /\ idx < Len(decodedData)
  /\ devices' = Append(devices, DeviceAt(decodedData, idx))
  /\ idx' = idx + 12
  /\ UNCHANGED <<decodedData, listPc>>
  /\ UNCHANGED <<setVars, transportVars, schedVars>>

\* The loop condition fails: `return devices`.
getDeviceListReturn ==
  /\ listPc = "loop"
  /\ ~(idx < Len(decodedData))
  /\ listPc' = "returned"
  /\ UNCHANGED <<decodedData, devices, idx>>
  /\ UNCHANGED <<setVars, transportVars, schedVars>>

getModeBitsDefault(m) == 0

getModeBits(m) ==
  CASE m = "auto" -> 0
    [] m = "manual" -> 1
    [] m = "vacation" -> 2
    [] m = "boost" -> 3
    [] OTHER -> 0

Modes == {"auto", "manual", "vacation", "boost"}

\* Math.round(temperature * 2) of a temperature given in tenths of a
\* degree: the nearest integer, a half rounding up.
TempValue(tenths) == (2 * tenths + 5) \div 10

\* setTemperature up to its payload: the last element of the Uint8Array,
\* which keeps the low eight bits of what is stored in it.
setTemperature ==
  /\ setPc = "call"
  /\ temperatureByte' =
       BitOr(ShiftLeft(getModeBits(mode), 6), TempValue(temperature)) % 256
  /\ setPc' = "built"
  /\ UNCHANGED <<mode, temperature>>
  /\ UNCHANGED <<listVars, transportVars, schedVars>>

\* No getDeviceList is decoding and no setTemperature is encoding.
CodecIdle ==
  /\ decodedData = <<>>
  /\ devices = <<>>
  /\ idx = 0
  /\ listPc = "idle"
  /\ mode = "manual"
  /\ temperature = 0
  /\ temperatureByte = 0
  /\ setPc = "idle"

\* ------------------------------------------------------- specifications
\* The scheduler's registry (db, crons, cronController, aborted, timers) and
\* the transport (conn, lock, sockets, calls) share no variable: the only
\* steps that touch both are Fire, which reads the registry and issues
\* sends, and the end of the process on an unhandled rejection, which
\* clears both. The program is therefore checked in parts:
\*   SchedSpec   every CronHandler / Database operation and the firings,
\*               from module load, with the calls a firing issues left
\*               pending;
\*   Spec        every transport step and the firings, from the state in
\*               which the store is open and job "j1" is registered;
\*   CancelSpec  Spec with removeCron;
\*   ListSpec, SetSpec  the two codecs of the controller.

\* Module load: `let db`, `new Map()`, `new HeatingSystemController(...)`.
ModuleLoad ==
  /\ TransportInit
  /\ db = FALSE
  /\ crons = {}
  /\ cronController = [n \in Names |-> NoCtl]
  /\ aborted = {}
  /\ timers = [n \in Names |-> NoCtl]
  /\ nctl = 0
  /\ fired = <<>>
  /\ lastRemove = [name |-> "", effects |-> <<>>, threw |-> FALSE]
  /\ lastNew = [name |-> "", threw |-> FALSE]

SchedInit == ModuleLoad /\ CodecIdle

SchedNext ==
  \/ Create
  \/ \E n \in Names : newCron(n)
  \/ initializeCrons
  \/ \E n \in Names : removeCron(n)
  \/ \E n \in Names : Fire(n)

SchedSpec == SchedInit /\ [][SchedNext]_vars

\* After Database.create and CronHandler.newCron of job "j1".
Init ==
  /\ TransportInit
  /\ db = TRUE
  /\ crons = {"j1"}
  /\ cronController = [n \in Names |-> IF n = "j1" THEN 1 ELSE NoCtl]
  /\ aborted = {}
  /\ timers = [n \in Names |-> IF n = "j1" THEN 1 ELSE NoCtl]
  /\ nctl = 1
  /\ fired = <<>>
  /\ lastRemove = [name |-> "", effects |-> <<>>, threw |-> FALSE]
  /\ lastNew = [name |-> "", threw |-> FALSE]
  /\ CodecIdle

Next ==
  \/ DirectCall("W", "l")
  \/ DirectCall("N", "t")
  \/ \E n \in Names : Fire(n)
  \/ \E p \in CallIds : AcquireLock(p)
  \/ \E p \in CallIds : Try(p)
  \/ \E p \in CallIds : ConnectOk(p)
  \/ \E p \in CallIds : ConnectRefused(p)
  \/ \E p \in CallIds : Handshake(p)
  \/ \E p \in CallIds : \E throws \in BOOLEAN : ReadFails(p, throws)
  \/ \E p \in CallIds : \E delivered \in BOOLEAN : Write(p, delivered)
  \/ \E p \in CallIds : WriteFails(p)
  \/ \E p \in CallIds : Read(p)
  \/ \E r \in RecIds : ReconnectTimer(r)
  \/ \E r \in RecIds : ReconnectOk(r)
  \/ \E r \in RecIds : ReconnectRefused(r)
  \/ \E r \in RecIds : ReconnectHandshake(r)
  \/ \E r \in RecIds : ReconnectReadFails(r)
  \/ \E s \in SockIds : Drop(s)

Spec == Init /\ [][Next]_vars

\* The steps of one send that the event loop takes once the awaited
\* operation has completed.
CallStep(p) ==
  \/ AcquireLock(p)
  \/ Try(p)
  \/ ConnectOk(p)
  \/ Handshake(p)
  \/ \E delivered \in BOOLEAN : Write(p, delivered)
  \/ WriteFails(p)
  \/ Read(p)
  \/ \E throws \in BOOLEAN : ReadFails(p, throws)

\* The steps of one scheduled reconnect.
ReconnectStep(r) ==
  \/ ReconnectTimer(r)
  \/ ReconnectOk(r)
  \/ ReconnectHandshake(r)
  \/ ReconnectReadFails(r)

\* The event loop resumes every continuation whose operation has completed,
\* every timer expires, and the gateway accepts connections and answers;
\* its faults (Drop, the refusals) are never forced.
FairSpec ==
  /\ Spec
  /\ \A p \in CallIds : WF_vars(CallStep(p))
  /\ \A r \in RecIds : WF_vars(ReconnectStep(r))

\* The transport with the firings and with removeCron: a job is cancelled
\* while the sends of its firing are pending.
CancelNext ==
  \/ Next
  \/ \E n \in Names : removeCron(n)

CancelSpec == Init /\ [][CancelNext]_vars

\* The codecs are functions of their arguments alone; each is checked on
\* its own, from every argument of a bounded set.
\* getDeviceList after the reply has been decoded from base64.
ListInit ==
  /\ ModuleLoad
  /\ decodedData \in Payloads
  /\ devices = <<>>
  /\ idx = 0
  /\ listPc = "loop"
  /\ mode = "manual"
  /\ temperature = 0
  /\ temperatureByte = 0
  /\ setPc = "idle"

ListNext ==
  \/ getDeviceListLoop
  \/ getDeviceListReturn

ListSpec == ListInit /\ [][ListNext]_vars

\* setTemperature called with a mode and a temperature.
SetInit ==
  /\ ModuleLoad
  /\ decodedData = <<>>
  /\ devices = <<>>
  /\ idx = 0
  /\ listPc = "idle"
  /\ mode \in Modes
  /\ temperature \in 0..MaxTenths
  /\ temperatureByte = 0
  /\ setPc = "call"

SetNext == setTemperature

SetSpec == SetInit /\ [][SetNext]_vars

\* ================================================================ claims
InFlightCalls == {p \in CallIds : InFlight(calls[p])}

\* C1: for any interleaving of with-response and no-response sends, at most
\* one call is between acquiring the gate and finishing its command, the
\* gate is set while a call is there, and a command is written to the
\* socket only by the one call that holds the gate.
C1_OneCommandInFlight ==
  /\ [](Cardinality(InFlightCalls) <= 1 /\ (InFlightCalls # {} => lock))
  /\ [][\A p \in CallIds :
          calls'[p].writes > calls[p].writes => lock /\ InFlightCalls = {p}]_vars

\* C1 witness: a with-response call has written its command and waits for
\* the reply while a no-response call and another call are held at the gate.
C1_Witness ==
  \E p, q, r \in CallIds :
    /\ calls[p].kind = "W" /\ calls[p].pc = "read" /\ calls[p].writes = 1
    /\ calls[q].kind = "N" /\ calls[q].pc = "wait"
    /\ r # q /\ calls[r].pc = "wait"

\* C2 (as claimed): sendMessageWithResponse releases the gate when it
\* returns its matching reply line.
C2_GateReleasedOnReturn ==
  [][\A p \in CallIds :
       calls[p].pc = "read" /\ calls'[p].pc = "returned" => ~lock']_vars

\* No scheduled reconnect is pending or running.
NoReconnectActive == \A r \in RecIds : recs[r].pc \in {"unused", "done"}

\* C3 (as claimed): a with-response call whose try block has just failed
\* for the first time (it is about to reconnect), with the gateway healthy
\* from then on, goes on to return its matching reply line, having written
\* its command at most twice.
C3_RetrySucceeds ==
  \A p \in CallIds :
    (/\ calls[p].kind = "W" /\ calls[p].ctx = "catch" /\ calls[p].depth = 0
     /\ calls[p].pc = "connect" /\ faults = MaxFaults /\ NoReconnectActive)
      ~> (calls[p].pc = "returned" /\ Matches(calls[p], calls[p].res)
          /\ calls[p].writes <= 2)

\* A with-response call that has had a failure: it is in its catch block or
\* in the nested invocation the catch block made.
Retrying(c) == c.kind = "W" /\ (c.ctx = "catch" \/ c.depth > 0)

\* C4 (as claimed): the retry is bounded: a with-response call that had a
\* failure terminates (it returns, or the second failure is propagated to
\* its caller), and it never writes its command more than twice.
C4_RetryTerminates ==
  /\ [](\A p \in CallIds : calls[p].writes <= 2)
  /\ \A p \in CallIds : Retrying(calls[p]) ~> Finished(calls[p])

\* C5 (as claimed): when a no-response send fails, the error reaches the
\* caller, the command is not written again, the transport is Disconnected
\* (this.conn is null, so that the next send connects first), one reconnect
\* is scheduled and the gate is released.
C5_NoResponseFailure ==
  [][\A p \in CallIds :
       calls[p].kind = "N" /\ calls[p].pc # "failed" /\ calls'[p].pc = "failed"
         => /\ calls'[p].writes = calls[p].writes
            /\ conn' = NoConn
            /\ nrecs' = nrecs + 1
            /\ ~lock']_vars

\* C6 (as claimed): in one firing the set-temperature call for an address
\* is issued only after the attempts for all earlier addresses of the list
\* have finished.
C6_AddressesInOrder ==
  \A i, j \in 1..Len(rfAdresses) :
    (i < j /\ j <= Len(fired) /\ calls[fired[j]].pc # "unused")
      => Finished(calls[fired[i]])

\* The setTemperature promise of the call for address i of the latest
\* firing rejects in this step: the reconnect of its catch block is refused.
Rejects(i) == calls[fired[i]].ctx = "catch" /\ ConnectRefused(fired[i])

\* C7 (as claimed): when the setTemperature of an address of a firing
\* fails, the address gets its one recovery attempt: a second setTemperature
\* call for the same address is issued.
C7_OneRecoveryAttempt ==
  [][\A i \in 1..Len(fired) :
       Rejects(i) =>
         \E q \in CallIds :
           /\ q # fired[i]
           /\ calls'[q].pc # "unused"
           /\ calls'[q].job = calls[fired[i]].job
           /\ calls'[q].addr = calls[fired[i]].addr]_vars

\* C8 (as claimed): when the call for an address of a firing fails, the
\* firing is not aborted: the calls for the later addresses of the list
\* are still there to be written.
C8_RemainingAddressesRun ==
  [][\A i, j \in 1..Len(fired) :
       i < j /\ Rejects(i) =>
         /\ j <= Len(fired')
         /\ fired'[j] = fired[j]
         /\ calls'[fired[j]].pc \notin {"unused", "failed"}]_vars

\* No job is registered under the name: no row, no AbortController.
Unregistered(n) == n \notin crons /\ cronController[n] = NoCtl

\* The registry apart from the store handle.
registry == <<crons, cronController, aborted, timers>>

\* Position of the first occurrence of effect e in sequence es, 0 if none.
Pos(es, e) ==
  IF \E i \in 1..Len(es) : es[i] = e
    THEN CHOOSE i \in 1..Len(es) : es[i] = e /\ \A k \in 1..(i - 1) : es[k] # e
    ELSE 0

\* C9 (as claimed): removeCron cancels the timer of the name first and
\* deletes the record afterwards, and when deleting the record fails the
\* timer of the name has been cancelled all the same.
C9_CancelThenDelete ==
  [][\A n \in Names :
       removeCron(n) =>
         /\ Pos(lastRemove'.effects, "delete") > 0 /\ timers[n] = cronController[n]
              /\ timers[n] # NoCtl
              => (Pos(lastRemove'.effects, "abort") > 0
                  /\ Pos(lastRemove'.effects, "abort") < Pos(lastRemove'.effects, "delete"))
         /\ lastRemove'.threw => timers'[n] = NoCtl]_vars

\* C9 (amended): removeCron deletes the record first and aborts the
\* controller of the name afterwards: it never aborts without having run the
\* DELETE before, after a removeCron that returned the name has no row, its
\* controller (if any) is aborted and no Deno.cron is registered with that
\* controller, and a removeCron that threw did nothing at all.
C9_DeleteThenCancel ==
  [][\A n \in Names :
       removeCron(n) =>
         /\ lastRemove'.effects \in {<<>>, <<"delete">>, <<"delete", "abort">>}
         /\ lastRemove'.threw => lastRemove'.effects = <<>> /\ UNCHANGED registry
         /\ ~lastRemove'.threw =>
              /\ n \notin crons'
              /\ cronController[n] # NoCtl =>
                   /\ cronController[n] \in aborted'
                   /\ timers'[n] # cronController[n]
                   /\ lastRemove'.effects = <<"delete", "abort">>]_vars

\* C9 witness: the latest removeCron deleted the row of a job and cancelled
\* its armed timer.
C9_Witness ==
  /\ lastRemove.effects = <<"delete", "abort">>
  /\ lastRemove.name \notin crons
  /\ timers[lastRemove.name] = NoCtl
  /\ cronController[lastRemove.name] \in aborted

\* C10 (as claimed): removeCron of a name with no registered job raises no
\* error and changes neither the rows nor any timer or controller.
C10_UnknownNameNoOp ==
  [][\A n \in Names :
       (removeCron(n) /\ Unregistered(n)) =>
         ~lastRemove'.threw /\ UNCHANGED registry]_vars

\* C10 (amended): removeCron of a name with no registered job changes
\* neither the rows nor any timer or controller, and raises an error exactly
\* when the store has not been created; a removeCron of a name that has no
\* row and whose controller is already aborted (a second removeCron) changes
\* nothing either.
C10_UnknownNameNoOpOnceCreated ==
  [][\A n \in Names :
       /\ (removeCron(n) /\ Unregistered(n)) =>
            (lastRemove'.threw <=> ~db) /\ UNCHANGED registry
       /\ (removeCron(n) /\ n \notin crons /\ cronController[n] \in aborted) =>
            UNCHANGED registry]_vars

\* C10 witness: the latest removeCron was for a name with no registered job
\* and returned, while another job has its row and its armed timer.
C10_Witness ==
  /\ lastRemove.name \in Names
  /\ ~lastRemove.threw
  /\ lastRemove.effects = <<"delete">>
  /\ Unregistered(lastRemove.name)
  /\ \E m \in Names : m # lastRemove.name /\ m \in crons /\ timers[m] = cronController[m]
                      /\ timers[m] # NoCtl

\* C11: newCron persists first and arms only when persisting succeeded: a
\* rejected record (store not open, or the name has a row) leaves rows,
\* timers and handles alone; an accepted one ends with its row stored and
\* the timer of the name armed under the handle of the name. At any time
\* an armed timer belongs to a stored job and is the one the handle of its
\* name cancels.
C11_ArmOnlyIfPersisted ==
  /\ [][\A n \in Names :
          newCron(n) =>
            IF ~db \/ n \in crons
              THEN UNCHANGED <<crons, cronController, aborted, timers, nctl>>
              ELSE /\ n \in crons'
                   /\ timers'[n] # NoCtl
                   /\ timers'[n] = cronController'[n]]_vars
  /\ [](\A n \in Names :
          timers[n] # NoCtl =>
            /\ n \in crons
            /\ timers[n] = cronController[n]
            /\ timers[n] \notin aborted)

\* A newCron for a name that is stored and armed has been rejected, and the
\* job is still armed under its handle.
C11_Witness ==
  /\ lastNew.threw
  /\ db
  /\ lastNew.name \in crons
  /\ timers[lastNew.name] # NoCtl
  /\ timers[lastNew.name] = cronController[lastNew.name]

\* removeCron has run for job n: its row is deleted, its timer cancelled.
Cancelled(n) == n \notin crons /\ timers[n] = NoCtl

\* C12 (as claimed): no firing of a job begins after removeCron cancelled
\* it, and the firing that was in progress goes on through all of its
\* addresses: with a gateway that has had no fault, a call of that firing
\* that still waits for the gate finds it free or held by a command that is
\* in flight, which is the only thing that will free it.
C12_CancelledFiringProceeds ==
  /\ [][\A n \in Names : Fire(n) => ~Cancelled(n)]_vars
  /\ [](\A j \in 1..Len(fired) :
          /\ faults = 0
          /\ Cancelled(calls[fired[j]].job)
          /\ calls[fired[j]].pc = "wait"
          /\ lock
          => \E p \in CallIds : InFlight(calls[p]))

\* C13 (as claimed): whenever connect() returns, to a send or to a
\* scheduled reconnect, the value it returns is an "H:" line.
C13_ReturnsInfoLine ==
  [][/\ \A p \in CallIds :
          Handshake(p) /\ calls'[p].pc # "hs" => calls'[p].info = "H"
     /\ \A r \in RecIds :
          ReconnectHandshake(r) /\ recs'[r].pc # "hs" => recs'[r].info = "H"]_vars

\* C13 (amended): connect() returns exactly when the line it has read
\* starts with "L:", whether or not an "H:" line was read before; the value
\* it returns is the "H:" line it has remembered so far, and the empty
\* string when it has read none.
C13_ReturnsAtFirstL ==
  [][/\ \A p \in CallIds :
          Handshake(p) =>
            LET line == Head(socks[calls[p].sk].inbox)
            IN /\ (calls'[p].pc # "hs") = (line.pfx = "L")
               /\ calls'[p].info = IF line.pfx = "H" THEN "H" ELSE calls[p].info
               /\ calls[p].info \in {"", "H"}
     /\ \A r \in RecIds :
          ReconnectHandshake(r) =>
            LET line == Head(socks[recs[r].sk].inbox)
            IN /\ (recs'[r].pc # "hs") = (line.pfx = "L")
               /\ recs'[r].info = IF line.pfx = "H" THEN "H" ELSE recs[r].info
               /\ recs[r].info \in {"", "H"}]_vars

\* A connect() of a scheduled reconnect has returned the empty string.
C13_Witness == \E r \in RecIds : recs[r].pc = "done" /\ recs[r].info = ""

\* C14 (as claimed): for a decoded payload of n bytes getDeviceList returns
\* exactly floor(n / 12) records.
C14_FloorRecords ==
  listPc = "returned" => Len(devices) = Len(decodedData) \div 12

\* The temperature byte split as the claim decodes it: the top two bits and
\* the low six bits.
TopTwoBits(b) == b \div 64
LowSixBits(b) == b % 64
ModeOfBits(bits) ==
  CASE bits = 0 -> "auto"
    [] bits = 1 -> "manual"
    [] bits = 2 -> "vacation"
    [] bits = 3 -> "boost"

\* The half-degree temperatures of the valid device range: 2t in 0..63.
HalfDegreeInRange(tenths) == tenths % 5 = 0 /\ tenths \div 5 <= 63

\* C15: for each of the four modes and every half-degree temperature t with
\* 2t in 0..63, the byte setTemperature builds decodes back to (t, mode):
\* its top two bits are the mode's code and its low six bits are 2t.
C15_TempByteRoundTrip ==
  setPc = "built" /\ HalfDegreeInRange(temperature) =>
    /\ ModeOfBits(TopTwoBits(temperatureByte)) = mode
    /\ LowSixBits(temperatureByte) * 5 = temperature

\* The largest byte has been built: boost at 31.5 degrees.
C15_Witness ==
  /\ setPc = "built"
  /\ mode = "boost"
  /\ temperature = 315
  /\ temperatureByte = 255

\* C16 (as claimed): a failed read in the reply loop of a
\* sendMessageWithResponse call makes the call leave its read loop.
C16_ReadFailureLeavesLoop ==
  [][\A p \in CallIds :
       calls[p].pc = "read" /\ (\E throws \in BOOLEAN : ReadFails(p, throws))
         => calls'[p].pc # "read"]_vars

\* C17 (as claimed): connect() opens a socket only when the transport holds
\* no live connection: not while this.conn is a socket that is open (Ready
\* or in its handshake).
C17_ConnectIdempotent ==
  [][nsock' > nsock => conn = NoConn \/ socks[conn].st = "dead"]_vars

\* No code path calls conn.close() (TcpClient.close has no caller), so a
\* socket Deno.connect has opened stays open on the program's side.
Unclosed(s) == socks[s].st # "unused"

\* C18 (as claimed): at most one socket to the gateway is open, and it is
\* the one this.conn holds.
C18_SingleSocket ==
  /\ Cardinality({s \in SockIds : Unclosed(s)}) <= 1
  /\ \A s \in SockIds : Unclosed(s) => conn = s

\* C19 (as claimed): the line a sendMessageWithResponse call returns is the
\* reply the gateway sent for that call's own command.
C19_ReplyOfOwnCommand ==
  \A p \in CallIds : calls[p].pc = "returned" => calls[p].res.of = p

\* The "L:" line of the gateway's greeting has not been read from socket s:
\* no connect() loop has finished the handshake of s.
GreetingPending(s) ==
  \E k \in 1..Len(socks[s].inbox) : socks[s].inbox[k] = Line("L", 0)

\* C20 (as claimed): no command is written to a socket whose handshake has
\* not completed.
C20_WriteAfterHandshake ==
  [][\A p \in CallIds :
       (\E delivered \in BOOLEAN : Write(p, delivered))
         => ~GreetingPending(calls[p].sk)]_vars

====
